---- MODULE Spec2Model ----
(***************************************************************************)
(* A model of keithley617.py, the driver of the Keithley 617 electrometer  *)
(* behind a Prologix GPIB-USB adapter (module gpib, an outside             *)
(* collaborator: its write/readline/open/close calls are the environment). *)
(*                                                                         *)
(* Units: sleeps are logged in seconds, sample times are kept in           *)
(* milliseconds, so that (CurrentSample - 1) * 0.360 is the integer        *)
(* (CurrentSample - 1) * 360.                                              *)
(***************************************************************************)
EXTENDS Integers, Sequences, FiniteSets, TLC

\* ------------------------------------------------------------- bounds
MaxSamples == 2        \* largest sample count that is polled to the end
MaxPolls == 4          \* lines a call's poll loop reads at most

\* ------------------------------------------------- program constants
MaxAllowedSamples == 100   \* read_multiple: if samples > 100
OneSampleTarget == 2       \* read_one: samples = 2
SettleSeconds == 1         \* time.sleep(1) after a function-select command
FastStoreMillis == 360     \* 0.360 s per stored sample at interval 0

LegalIntervals == {0, 1, 10, 60, 600, 3600}
OtherIntervals == {5, 99}
Intervals == LegalIntervals \cup OtherIntervals
SampleCounts == (1..MaxSamples) \cup {MaxAllowedSamples + 1}
MaxTag == MaxSamples + 1

\* ------------------------------------------------------ response lines
\* ",%03d" % n : the three decimal digits of n behind the comma (n < 1000).
Fmt3(n) == << (n \div 100) % 10, (n \div 10) % 10, n % 10 >>

NoTag == << >>
Tags == { Fmt3(k) : k \in 0..MaxTag }

\* A response line: dc  - the text contains the "DC" status marker;
\*                  ok  - the text between column 4 and the first comma
\*                        parses as a float, whose value is val;
\*                  tag - the digits of the ",NNN" tag, NoTag if none.
Line(dc, ok, val, tag) == [dc |-> dc, ok |-> ok, val |-> val, tag |-> tag]
NoLine == Line(FALSE, FALSE, 0, NoTag)
Values == {1, 2}
\* the lines the device answers a poll with: a frame without a tag, frames
\* with a tag and a number, frames with a tag and no number
Frames ==
    { Line(TRUE, FALSE, 0, NoTag) }
    \cup { Line(TRUE, TRUE, v, t) : v \in Values, t \in Tags }
    \cup { Line(TRUE, FALSE, 0, t) : t \in Tags }
\* the lines open_connection may read after the reset: with and without
\* the "DC" marker
StatusLines == { Line(d, FALSE, 0, NoTag) : d \in BOOLEAN }

\* ",%03d" % n in Datum
HasTagAny(line, n) == line.tag # NoTag
HasTagAtLeast(line, n) == line.tag # NoTag /\ \E m \in n..MaxTag : line.tag = Fmt3(m)
HasTagUpTo(line, n) == line.tag # NoTag /\ \E m \in 0..n : line.tag = Fmt3(m)
HasTagOffByOne(line, n) == line.tag # NoTag /\ line.tag = Fmt3(n - 1)
HasTag(line, n) == line.tag # NoTag /\ line.tag = Fmt3(n)

\* "DC" in reading
StatusOKAlways(line) == TRUE
StatusOK(line) == line.dc

\* ------------------------------------------------------- log entries
W(cmd) == [op |-> "write", cmd |-> cmd, n |-> 0, v |-> 0]
S(secs) == [op |-> "sleep", cmd |-> "", n |-> secs, v |-> 0]
R == [op |-> "readline", cmd |-> "", n |-> 0, v |-> 0]
CB(t, val) == [op |-> "callback", cmd |-> "", n |-> t, v |-> val]
ChanOpen == [op |-> "open", cmd |-> "", n |-> 0, v |-> 0]
ChanClose == [op |-> "close", cmd |-> "", n |-> 0, v |-> 0]
ChanClear == [op |-> "clear", cmd |-> "", n |-> 0, v |-> 0]

\* print 'Warning: ...' and gpib.write("V" + "%.2f" % voltage + "X"), the
\* latter with the two-decimal number in hundredths of a volt
Warn == [op |-> "print", cmd |-> "Warning", n |-> 0, v |-> 0]
WV(hundredths) == [op |-> "write", cmd |-> "V%.2fX", n |-> hundredths, v |-> 0]

Writes(log) == SelectSeq(log, LAMBDA e : e.op = "write")
Callbacks(log) == SelectSeq(log, LAMBDA e : e.op = "callback")
Reads(log) == SelectSeq(log, LAMBDA e : e.op = "readline")

\* ----------------------------------------------------- pure helpers
\* interval not in [0, 1, 10, 60, 600, 3600]
IntervalAllowed(interval) == interval \in LegalIntervals

\* the if/elif chain that selects the storage-rate command
RateCommandFixed(interval) == "B1Q0G2X"
RateCommand(interval) ==
    IF interval = 0 THEN "B1Q0G2X"
    ELSE IF interval = 1 THEN "B1Q1G2X"
    ELSE IF interval = 10 THEN "B1Q2G2X"
    ELSE IF interval = 60 THEN "B1Q3G2X"
    ELSE IF interval = 600 THEN "B1Q4G2X"
    ELSE IF interval = 3600 THEN "B1Q5G2X"
    ELSE "raise"

\* the timestamp of sample number i, in milliseconds
SampleTimeNext(i, interval) ==
    IF interval = 0 THEN i * FastStoreMillis
    ELSE i * interval * 1000
SampleTimeOf(i, interval) ==
    IF interval = 0 THEN (i - 1) * FastStoreMillis
    ELSE (i - 1) * interval * 1000

\* Voltages are kept in millivolts (thousandths of a volt).
Voltages == {-25, 0, 15, 20, 25, 50, 100, 125}

\* abs((voltage / 0.05) - round(voltage / 0.05)) > 1e-10: voltage / 0.05 is
\* mv / 50 up to a float error far below 1e-10, so the difference is below
\* the tolerance for a multiple of 50 mV and at least 0.02 otherwise.
WarnNeededPerCentivolt(mv) == mv % 10 # 0
WarnNeeded(mv) == mv % 50 # 0

\* "%.2f" % voltage, in hundredths: the decimal expansion of the double
\* nearest to mv / 1000, correctly rounded to two places.  Half a hundredth
\* is decided by that double: it is exact when mv is a multiple of 125 (ties
\* go to the even digit), and lies above mv / 1000 for the magnitudes of
\* DoubleAbove (of those below 130), below it for the others.
DoubleAbove == {5, 25, 35, 55, 65, 85, 95, 115}
Format2(mv) ==
    LET a == IF mv < 0 THEN -mv ELSE mv
        q == a \div 10
        r == a % 10
        up == \/ r > 5
              \/ r = 5 /\ a % 125 # 0 /\ a \in DoubleAbove
              \/ r = 5 /\ a % 125 = 0 /\ q % 2 = 1
        h == IF up THEN q + 1 ELSE q
    IN  IF mv < 0 THEN -h ELSE h

\* update_graph(Time[-1], Data[-1], *args): the call binds 2 + nargs
\* arguments; do_nothing(dummy1, dummy2, dummy3) takes exactly three, the
\* caller's callback "user2" exactly two.
Callables == {"do_nothing", "user2"}
CallbackArity(cb) == IF cb = "do_nothing" THEN 3 ELSE 2
CallbackBinds(cb, nargs) == CallbackArity(cb) = 2 + nargs

\* -------------------------------------------------------------- state
VARIABLES
    conn,           \* "closed", "open" (channel open, device not verified), "verified"
    statusLine,     \* the line the call of open_connection read (NoLine otherwise)
    pc,             \* "idle", the poll loop a call is in ("multi", "one"), or
                    \* "done": the call has ended and the caller holds its result
    call,           \* the current (or last) call and its arguments
    Time,           \* read_multiple: Time
    Data,           \* read_multiple / read_one: Data
    CurrentSample,  \* read_multiple / read_one: CurrentSample
    Datum,          \* read_multiple / read_one: Datum
    calllog,        \* channel operations, sleeps and callbacks of the call, in order
    outcome,        \* "running", "returned", or the exception that ended the call
    iters           \* poll-loop iterations of the call so far

vars == << conn, statusLine, pc, call, Time, Data, CurrentSample, Datum,
           calllog, outcome, iters >>

Call(op, interval, samples, cb, nargs) ==
    [op |-> op, interval |-> interval, samples |-> samples, cb |-> cb, nargs |-> nargs]
Plain(op) == Call(op, 0, 0, "do_nothing", 0)

\* A channel operation on a channel that is not open fails; on an open
\* channel it may fail too.  f is the number of the channel operation of
\* the step that fails, 0 if none does.
FailureAt(f) == conn = "closed" => f = 1

\* the locals of an acquisition, before the call assigns them
NoLocals ==
    /\ Time' = << >>
    /\ Data' = << >>
    /\ CurrentSample' = 1
    /\ Datum' = NoLine
    /\ iters' = 0

Init ==
    /\ conn = "closed"
    /\ statusLine = NoLine
    /\ pc = "idle"
    /\ call = Plain("none")
    /\ Time = << >>
    /\ Data = << >>
    /\ CurrentSample = 1
    /\ Datum = NoLine
    /\ calllog = << >>
    /\ outcome = "returned"
    /\ iters = 0

\* ------------------------------------------------ connection lifecycle
OpenOps == << ChanOpen, W("++addr 27"), ChanClear, W("C0X"), W("C0X"), R >>

open_connection ==
    /\ pc = "idle"
    /\ \E line \in StatusLines, f \in 0..Len(OpenOps) :
        /\ call' = Plain("open_connection")
        /\ calllog' = IF f = 0 THEN OpenOps ELSE SubSeq(OpenOps, 1, f - 1)
        /\ statusLine' = IF f = 0 THEN line ELSE NoLine
        /\ outcome' = IF f # 0 THEN "ChannelError"
                      ELSE IF ~StatusOK(line) THEN "DeviceNotResponding"
                      ELSE "returned"
        /\ conn' = IF f = 1 THEN "closed"
                   ELSE IF f = 0 /\ StatusOK(line) THEN "verified"
                   ELSE "open"
    /\ NoLocals
    /\ pc' = "done"

close_connection_skipped ==
    /\ pc = "idle"
    /\ call' = Plain("close_connection")
    /\ calllog' = << >>
    /\ outcome' = "returned"
    /\ statusLine' = NoLine
    /\ NoLocals
    /\ pc' = "done"
    /\ UNCHANGED conn

close_connection ==
    /\ pc = "idle"
    /\ call' = Plain("close_connection")
    /\ calllog' = << ChanClose >>
    /\ outcome' = "returned"
    /\ conn' = "closed"
    /\ statusLine' = NoLine
    /\ NoLocals
    /\ pc' = "done"

\* ------------------------------------------- mode and source commands
\* gpib.write(cmd), then time.sleep(1) where the function has it
SimpleCommand(op, cmd, settle) ==
    /\ pc = "idle"
    /\ \E f \in 0..1 :
        /\ FailureAt(f)
        /\ call' = Plain(op)
        /\ calllog' = IF f = 1 THEN << >>
                      ELSE IF settle THEN << W(cmd), S(SettleSeconds) >>
                      ELSE << W(cmd) >>
        /\ outcome' = IF f = 1 THEN "ChannelError" ELSE "returned"
    /\ statusLine' = NoLine
    /\ NoLocals
    /\ pc' = "done"
    /\ UNCHANGED conn

current_mode == SimpleCommand("current_mode", "F1X", TRUE)
voltage_mode == SimpleCommand("voltage_mode", "F0X", TRUE)
resistance_mode == SimpleCommand("resistance_mode", "F2X", TRUE)
disable_voltage_source == SimpleCommand("disable_voltage_source", "O0X", FALSE)
enable_voltage_source == SimpleCommand("enable_voltage_source", "O1X", FALSE)
display_voltage_source == SimpleCommand("display_voltage_source", "D1X", FALSE)

\* set_voltage_source(voltage)
VoltageCall(mv) ==
    [op |-> "set_voltage_source", interval |-> 0, samples |-> 0,
     cb |-> "do_nothing", nargs |-> 0, voltage |-> mv]

set_voltage_source ==
    /\ pc = "idle"
    /\ \E mv \in Voltages, f \in 0..1 :
        /\ FailureAt(f)
        /\ call' = VoltageCall(mv)
        /\ calllog' = (IF WarnNeeded(mv) THEN << Warn >> ELSE << >>)
                       \o (IF f = 1 THEN << >> ELSE << WV(Format2(mv)) >>)
        /\ outcome' = IF f = 1 THEN "ChannelError" ELSE "returned"
    /\ statusLine' = NoLine
    /\ NoLocals
    /\ pc' = "done"
    /\ UNCHANGED conn

enable_live_readings ==
    /\ pc = "idle"
    /\ call' = Plain("enable_live_readings")
    /\ calllog' = << >>
    /\ outcome' = "returned"
    /\ statusLine' = NoLine
    /\ NoLocals
    /\ pc' = "done"
    /\ UNCHANGED conn

\* ---------------------------------------------------------- acquisition
\* A call that ends before it reaches gpib.readline().
EndsAtOnce(c, how, log) ==
    /\ call' = c
    /\ outcome' = how
    /\ calllog' = log
    /\ pc' = "done"
    /\ NoLocals

\* The call is now inside gpib.readline(), waiting for the device's line.
WaitsForLine(c, where, log) ==
    /\ call' = c
    /\ outcome' = "running"
    /\ calllog' = log
    /\ pc' = where
    /\ NoLocals

\* read_multiple from its entry to the gpib.readline() before the loop
ReadMultipleBody(c, f) ==
    IF ~IntervalAllowed(c.interval)
    THEN EndsAtOnce(c, "InvalidInterval", << >>)
    ELSE IF c.samples > MaxAllowedSamples
    THEN EndsAtOnce(c, "TooManySamples", << >>)
    ELSE IF RateCommand(c.interval) = "raise"
    THEN EndsAtOnce(c, "InvalidInterval", << >>)
    ELSE IF f = 1
    THEN EndsAtOnce(c, "ChannelError", << >>)
    ELSE WaitsForLine(c, "multi", << W(RateCommand(c.interval)), S(c.interval) >>)

\* read_one from its entry to the gpib.readline() before the loop; its
\* local samples = 2 is the sample count of the call record
ReadOneBody(interval, f) ==
    LET c == Call("read_one", interval, OneSampleTarget, "do_nothing", 0) IN
    IF RateCommand(interval) = "raise"
    THEN EndsAtOnce(c, "InvalidInterval", << >>)
    ELSE IF f = 1
    THEN EndsAtOnce(c, "ChannelError", << >>)
    ELSE WaitsForLine(c, "one", << W(RateCommand(interval)) >>)

\* read(interval, samples, update_graph, *args): the public entry.  The
\* argument list of its call of read_multiple names figure, which is bound
\* nowhere in the module: evaluating it raises NameError before
\* read_multiple is entered.
ReadBody(c, f) ==
    IF c.samples > 1
    THEN EndsAtOnce(c, "NameError", << >>)
    ELSE ReadOneBody(c.interval, f)

read ==
    /\ pc = "idle"
    /\ \E interval \in Intervals, samples \in SampleCounts, cb \in Callables,
          nargs \in 0..1, f \in 0..1 :
        /\ FailureAt(f)
        /\ ReadBody(Call("read", interval, samples, cb, nargs), f)
    /\ statusLine' = NoLine
    /\ UNCHANGED conn

\* read_multiple called by name, as read means to call it
read_multiple ==
    /\ pc = "idle"
    /\ \E interval \in Intervals, samples \in SampleCounts, cb \in Callables,
          nargs \in 0..1, f \in 0..1 :
        /\ FailureAt(f)
        /\ ReadMultipleBody(Call("read_multiple", interval, samples, cb, nargs), f)
    /\ statusLine' = NoLine
    /\ UNCHANGED conn

\* The call ends inside the poll loop with the locals as given.
LoopEndsWithCleanup(how, log, t, d, cs, datum) ==
    /\ outcome' = how
    /\ calllog' = IF how = "ChannelError" THEN Append(log, W("Q7X")) ELSE log
    /\ pc' = "done"
    /\ Time' = t
    /\ Data' = d
    /\ CurrentSample' = cs
    /\ Datum' = datum
    /\ UNCHANGED << call, iters >>

LoopEnds(how, log, t, d, cs, datum) ==
    /\ outcome' = how
    /\ calllog' = log
    /\ pc' = "done"
    /\ Time' = t
    /\ Data' = d
    /\ CurrentSample' = cs
    /\ Datum' = datum
    /\ UNCHANGED << call, iters >>

\* The call is back in gpib.readline() at the end of the loop body.
LoopWaitsWithBudget(log, t, d, cs, datum) ==
    IF iters >= 2
    THEN LoopEnds("Timeout", log, t, d, cs, datum)
    ELSE /\ calllog' = log
         /\ Time' = t
         /\ Data' = d
         /\ CurrentSample' = cs
         /\ Datum' = datum
         /\ iters' = iters + 1
         /\ UNCHANGED << call, outcome, pc >>

LoopWaitsOrReturns(log, t, d, cs, datum) ==
    IF cs > call.samples
    THEN LoopEnds("returned", Append(SubSeq(log, 1, Len(log) - 1), W("Q7X")),
                  t, d, cs, datum)
    ELSE /\ calllog' = log
         /\ Time' = t
         /\ Data' = d
         /\ CurrentSample' = cs
         /\ Datum' = datum
         /\ iters' = iters + 1
         /\ UNCHANGED << call, outcome, pc >>

LoopWaits(log, t, d, cs, datum) ==
    /\ calllog' = log
    /\ Time' = t
    /\ Data' = d
    /\ CurrentSample' = cs
    /\ Datum' = datum
    /\ iters' = iters + 1
    /\ UNCHANGED << call, outcome, pc >>

\* read_multiple from the return of gpib.readline() with line (f = 1: the
\* read fails) through the test of the loop condition and the loop body to
\* the next gpib.readline(), or through the stop command to the return
\* (f = 2: the write fails).
MultiPass(line, f) ==
    LET accept == HasTag(line, CurrentSample)
        stale == ~accept /\ HasTag(line, CurrentSample - 1)
        d1 == IF accept THEN Append(Data, line.val) ELSE Data
        t1 == IF accept THEN Append(Time, SampleTimeOf(CurrentSample, call.interval))
              ELSE Time
        cs1 == IF accept THEN CurrentSample + 1 ELSE CurrentSample
        log0 == Append(calllog, R)
        log1 == log0 \o
                (IF accept THEN << CB(t1[Len(t1)], d1[Len(d1)]), S(call.interval) >>
                 ELSE IF stale THEN << S(call.interval) >>
                 ELSE << >>)
    IN  IF f = 1
        THEN LoopEnds("ChannelError", calllog, Time, Data, CurrentSample, Datum)
        ELSE IF ~(CurrentSample <= call.samples)
        THEN IF f = 2
             THEN LoopEnds("ChannelError", log0, Time, Data, CurrentSample, line)
             ELSE LoopEnds("returned", Append(log0, W("Q7X")), Time, Data,
                           CurrentSample, line)
        ELSE IF accept /\ ~line.ok
        THEN LoopEnds("ValueError", log0, Time, Data, CurrentSample, line)
        ELSE IF accept /\ ~CallbackBinds(call.cb, call.nargs)
        THEN LoopEnds("TypeError", log0, t1, d1, cs1, line)
        ELSE IF f = 2
        THEN LoopEnds("ChannelError", log1, t1, d1, cs1, line)
        ELSE LoopWaits(Append(log1, W("B1X")), t1, d1, cs1, line)

read_multiple_loop ==
    /\ pc = "multi"
    /\ iters < MaxPolls
    /\ \E line \in Frames, f \in 0..2 : MultiPass(line, f)
    /\ UNCHANGED << conn, statusLine >>

\* read_one, likewise.
OnePass(line, f) ==
    LET accept == HasTag(line, CurrentSample)
        stale == ~accept /\ HasTag(line, CurrentSample - 1)
        d1 == IF accept THEN Append(Data, line.val) ELSE Data
        cs1 == IF accept THEN CurrentSample + 1 ELSE CurrentSample
        log0 == Append(calllog, R)
        log1 == log0 \o
                (IF accept \/ stale THEN << S(call.interval) >> ELSE << >>)
    IN  IF f = 1
        THEN LoopEnds("ChannelError", calllog, Time, Data, CurrentSample, Datum)
        ELSE IF ~(CurrentSample <= call.samples)
        THEN IF f = 2
             THEN LoopEnds("ChannelError", log0, Time, Data, CurrentSample, line)
             ELSE LoopEnds("returned", Append(log0, W("Q7X")), Time, Data,
                           CurrentSample, line)
        ELSE IF accept /\ ~line.ok
        THEN LoopEnds("ValueError", log0, Time, Data, CurrentSample, line)
        ELSE IF f = 2
        THEN LoopEnds("ChannelError", log1, Time, d1, cs1, line)
        ELSE LoopWaits(Append(log1, W("B1X")), Time, d1, cs1, line)

read_one_loop ==
    /\ pc = "one"
    /\ iters < MaxPolls
    /\ \E line \in Frames, f \in 0..2 : OnePass(line, f)
    /\ UNCHANGED << conn, statusLine >>

\* the entries the step appends to the log of the call
NewEntries ==
    IF Len(calllog') >= Len(calllog)
    THEN SubSeq(calllog', Len(calllog) + 1, Len(calllog'))
    ELSE << >>

\* what the call returned: (Time, Data) from read_multiple, Data[-1] from read_one
Returned == outcome = "returned" /\ pc = "done"
ReturnedSeries == << Time, Data >>
ReturnedFirst == Data[1]
ReturnedValue == Data[Len(Data)]

\* The caller takes the result (or the exception) of the call and is free to
\* make the next call; the module keeps nothing of the call that ended.
next_call ==
    /\ pc = "done"
    /\ pc' = "idle"
    /\ call' = Plain("none")
    /\ calllog' = << >>
    /\ outcome' = "returned"
    /\ statusLine' = NoLine
    /\ NoLocals
    /\ UNCHANGED conn

Next ==
    \/ open_connection
    \/ close_connection
    \/ current_mode
    \/ voltage_mode
    \/ resistance_mode
    \/ disable_voltage_source
    \/ enable_voltage_source
    \/ display_voltage_source
    \/ enable_live_readings
    \/ set_voltage_source
    \/ read
    \/ read_multiple
    \/ read_multiple_loop
    \/ read_one_loop
    \/ next_call

Spec == Init /\ [][Next]_vars

TypeOK ==
    /\ conn \in {"closed", "open", "verified"}
    /\ pc \in {"idle", "multi", "one", "done"}
    /\ CurrentSample \in 1..(MaxAllowedSamples + 1)
    /\ Len(Time) <= MaxSamples /\ Len(Data) <= MaxSamples

\* ================================================================ claims

\* C1: every call read(interval, samples, ...) with samples > 1 and an
\* interval outside {0, 1, 10, 60, 600, 3600} fails with the invalid-interval
\* Error and has sent no command.
C1_InvalidIntervalRaised ==
    (pc = "done" /\ call.op = "read" /\ call.samples > 1
        /\ call.interval \notin {0, 1, 10, 60, 600, 3600})
    => (outcome = "InvalidInterval" /\ Writes(calllog) = << >>)

\* C2: every call read(interval, samples, ...) with samples > 100 fails with
\* the too-many-samples Error, whatever the interval, and has sent no command.
C2_TooManySamplesRaised ==
    (pc = "done" /\ call.op = "read" /\ call.samples > 100)
    => (outcome = "TooManySamples" /\ Writes(calllog) = << >>)

\* C3: every call read(interval, n, on_sample) with a legal interval and
\* 2 <= n <= 100 that the channel does not fail returns n values and has
\* invoked on_sample n times, the i-th time with the i-th time and value.
C3_SeriesReturned ==
    (pc = "done" /\ call.op = "read" /\ call.samples \in 2..100
        /\ call.interval \in {0, 1, 10, 60, 600, 3600}
        /\ outcome # "ChannelError")
    => /\ outcome = "returned"
       /\ Len(Data) = call.samples
       /\ Len(Time) = call.samples
       /\ Len(Callbacks(calllog)) = call.samples
       /\ \A i \in 1..Len(Callbacks(calllog)) :
            /\ Callbacks(calllog)[i].n = Time[i]
            /\ Callbacks(calllog)[i].v = Data[i]

\* C4: a multi-sample acquisition (n > 1) that returns has n times, the i-th
\* being (i-1) * interval seconds, (i-1) * 360 ms at interval 0, however many
\* lines were polled.
C4_Timestamps ==
    (Returned /\ call.op = "read_multiple" /\ call.samples > 1)
    => /\ Len(Time) = call.samples
       /\ \A i \in 1..Len(Time) :
            Time[i] = IF call.interval = 0 THEN (i - 1) * 360
                      ELSE (i - 1) * call.interval * 1000

\* C4 witness: read_multiple(10, 2, ...) has returned times 0 s and 10 s
\* after polling one line more than the samples need.
C4_Witness ==
    /\ Returned
    /\ call.op = "read_multiple" /\ call.samples = 2 /\ call.interval = 10
    /\ Time = << 0, 10000 >>
    /\ Len(Reads(calllog)) = 4

\* C5: read with samples = 1 returns one value, the one parsed from the
\* frame tagged 002: a frame is accepted only as the next index in turn, the
\* call returns only after two frames were accepted, and the value returned
\* is the second one.
C5_SecondSampleReturned ==
    /\ [](Returned /\ call.op = "read_one"
            => Len(Data) = 2 /\ CurrentSample = 3 /\ ReturnedValue = Data[2])
    /\ [][(pc = "one" /\ Data' # Data)
            => /\ Datum'.ok
               /\ Datum'.tag = << 0, 0, Len(Data) + 1 >>
               /\ Data' = Append(Data, Datum'.val)]_vars

\* C5 witness: read(0, 1) has returned 2, the value of the second frame,
\* after the first frame's value 1 was stored and dropped.
C5_Witness ==
    /\ Returned
    /\ call.op = "read_one"
    /\ Data = << 1, 2 >>
    /\ ReturnedValue = 2

\* C6: read with samples = 1 and an interval outside {0, 1, 10, 60, 600,
\* 3600} is not rejected with the interval Error.
C6_AnyIntervalForOne ==
    (call.op = "read_one" /\ call.interval \notin {0, 1, 10, 60, 600, 3600})
    => outcome # "InvalidInterval"

\* C7: in either poll loop, a line tagged with the previous expected index
\* leaves Time, Data and CurrentSample as they are and invokes no callback;
\* the call sleeps interval seconds, then sends B1X and waits for the next
\* line (unless the channel fails the write).
C7_StaleFrame ==
    [][(/\ pc \in {"multi", "one"}
        /\ CurrentSample <= call.samples
        /\ Len(Reads(calllog')) = Len(Reads(calllog)) + 1
        /\ Datum'.tag = Fmt3(CurrentSample - 1))
       => /\ Time' = Time
          /\ Data' = Data
          /\ CurrentSample' = CurrentSample
          /\ Callbacks(NewEntries) = << >>
          /\ \/ /\ NewEntries = << R, S(call.interval), W("B1X") >>
                /\ pc' = pc
             \/ /\ NewEntries = << R, S(call.interval) >>
                /\ outcome' = "ChannelError"]_vars

\* C7 witness: read_multiple has accepted frame 001, polled again, read a
\* second line tagged 001, slept and sent B1X once more.
C7_Witness ==
    /\ pc = "multi"
    /\ CurrentSample = 2
    /\ Len(Data) = 1
    /\ Datum.tag = << 0, 0, 1 >>
    /\ iters = 2
    /\ Len(calllog) >= 3
    /\ SubSeq(calllog, Len(calllog) - 2, Len(calllog))
         = << R, S(call.interval), W("B1X") >>

\* C8: open_connection opens the channel, sets the bus address, resets the
\* device, sends C0X twice and reads one line, in this order; it raises the
\* not-responding Error if and only if the line lacks "DC", and returns
\* otherwise.
C8_OpenConnection ==
    (pc = "done" /\ call.op = "open_connection" /\ outcome # "ChannelError")
    => /\ calllog = << ChanOpen, W("++addr 27"), ChanClear, W("C0X"), W("C0X"), R >>
       /\ Len(Reads(calllog)) = 1
       /\ outcome = "DeviceNotResponding" <=> ~statusLine.dc
       /\ outcome = "returned" <=> statusLine.dc

\* C8 witness: open_connection has read a line without "DC" and raised.
C8_Witness ==
    /\ pc = "done"
    /\ call.op = "open_connection"
    /\ outcome = "DeviceNotResponding"
    /\ ~statusLine.dc
    /\ Len(calllog) = 6

\* C9: a multi-sample call made without a callback (update_graph left at
\* do_nothing, no further arguments) does not fail for want of the callback.
C9_DefaultCallback ==
    (pc = "done" /\ call.op \in {"read", "read_multiple"}
        /\ call.samples \in 2..100
        /\ call.interval \in {0, 1, 10, 60, 600, 3600}
        /\ call.cb = "do_nothing" /\ call.nargs = 0)
    => outcome \notin {"NameError", "TypeError"}

\* the step sends a command of a call other than open_connection
SendsCommand == call'.op # "open_connection" /\ Writes(NewEntries) # << >>

\* how the connection becomes, and stops being, open-and-verified
VerifiedOnlyByOpen ==
    /\ (conn' = "verified" /\ call'.op = "open_connection" /\ pc = "idle")
         => (outcome' = "returned" /\ statusLine'.dc)
    /\ (conn' = "verified" /\ conn # "verified")
         => (call'.op = "open_connection" /\ pc = "idle")
    /\ (call'.op = "open_connection" /\ pc = "idle" /\ outcome' # "returned")
         => conn' # "verified"
    /\ (call'.op = "close_connection" /\ pc = "idle") => conn' # "verified"

C11_ConfigFirstStopLast ==
    (Returned /\ call.op \in {"read_multiple", "read_one"})
    => LET w == Writes(calllog)
           rate == CASE call.interval = 0 -> "B1Q0G2X"
                     [] call.interval = 1 -> "B1Q1G2X"
                     [] call.interval = 10 -> "B1Q2G2X"
                     [] call.interval = 60 -> "B1Q3G2X"
                     [] call.interval = 600 -> "B1Q4G2X"
                     [] call.interval = 3600 -> "B1Q5G2X"
                     [] OTHER -> "none"
       IN  /\ Len(w) >= 2
           /\ calllog[1] = W(rate)
           /\ calllog[Len(calllog)] = W("Q7X")
           /\ Len(SelectSeq(w, LAMBDA e : e.cmd = "Q7X")) = 1
           /\ Len(SelectSeq(w, LAMBDA e : e.cmd \notin {"B1X", "Q7X"})) = 1
           /\ CurrentSample = call.samples + 1

\* C11 witness: read_multiple(60, 2, ...) has returned after the rate command,
\* three polls and the stop command.
C11_Witness ==
    /\ Returned
    /\ call.op = "read_multiple" /\ call.interval = 60 /\ call.samples = 2
    /\ Writes(calllog) = << W("B1Q3G2X"), W("B1X"), W("B1X"), W("B1X"), W("Q7X") >>


C13_ValidCallReturns ==
    (/\ pc = "done"
     /\ call.op \in {"read", "read_multiple", "read_one"}
     /\ call.interval \in {0, 1, 10, 60, 600, 3600}
     /\ call.samples \in 1..100
     /\ call.nargs = 0
     /\ outcome \notin {"ChannelError", "ValueError"})
    => (outcome = "returned" /\ CurrentSample = call.samples + 1)


\* C14: there is no timeout and no retry budget: however many lines the loop
\* has read, a line that still carries the previous index neither returns
\* nor raises (short of a channel error); the call polls again, and the poll
\* comes right after a sleep of interval seconds.
C14_NoTimeout ==
    [][(/\ pc \in {"multi", "one"}
        /\ CurrentSample <= call.samples
        /\ Len(Reads(calllog')) = Len(Reads(calllog)) + 1
        /\ Datum'.tag = Fmt3(CurrentSample - 1)
        /\ outcome' # "ChannelError")
       => /\ pc' = pc
          /\ outcome' = "running"
          /\ iters' = iters + 1
          /\ calllog'[Len(calllog')] = W("B1X")
          /\ calllog'[Len(calllog') - 1] = S(call.interval)]_vars

\* C14 witness: read_multiple has read as many lines as the model explores,
\* all tagged 000, has accepted nothing, has slept before every poll and is
\* still waiting for a line.
C14_Witness ==
    /\ pc = "multi"
    /\ outcome = "running"
    /\ iters = MaxPolls
    /\ CurrentSample = 1 /\ Data = << >>
    /\ Datum.tag = << 0, 0, 0 >>
    /\ Len(SelectSeq(calllog, LAMBDA e : e.op = "sleep")) = MaxPolls + 1
    /\ Len(Writes(calllog)) = MaxPolls + 1


\* C15: in either poll loop, a line tagged with neither the expected nor the
\* previous index, or with no tag at all, raises nothing, leaves Time, Data
\* and CurrentSample as they are, invokes no callback and causes no sleep:
\* the call sends B1X at once and waits for the next line.
C15_ForeignFrame ==
    [][(/\ pc \in {"multi", "one"}
        /\ CurrentSample <= call.samples
        /\ Len(Reads(calllog')) = Len(Reads(calllog)) + 1
        /\ Datum'.tag # Fmt3(CurrentSample)
        /\ Datum'.tag # Fmt3(CurrentSample - 1))
       => /\ Time' = Time
          /\ Data' = Data
          /\ CurrentSample' = CurrentSample
          /\ \A i \in 1..Len(NewEntries) : NewEntries[i].op \notin {"sleep", "callback"}
          /\ \/ /\ NewEntries = << R, W("B1X") >>
                /\ pc' = pc
                /\ outcome' = "running"
             \/ /\ NewEntries = << R >>
                /\ outcome' = "ChannelError"]_vars

\* C15 witness: read_multiple, expecting index 2, has read a line without a
\* tag and sent the next B1X right after it, with no sleep since the B1X
\* before.
C15_Witness ==
    /\ pc = "multi"
    /\ CurrentSample = 2
    /\ Len(Data) = 1
    /\ Datum = Line(TRUE, FALSE, 0, NoTag)
    /\ Len(calllog) >= 3
    /\ SubSeq(calllog, Len(calllog) - 2, Len(calllog)) = << W("B1X"), R, W("B1X") >>


\* C16: when gpib.write or gpib.readline fails while a poll loop is in
\* progress, the call ends in that step with the channel's error: it reads at
\* most the one line it was waiting for, completes no write in the step (the
\* failing operation is the last one it tries), has sent no Q7X in the whole
\* call, and returns nothing.
C16_ChannelErrorPropagates ==
    [][(pc \in {"multi", "one"} /\ outcome' = "ChannelError")
       => /\ pc' = "done"
          /\ ~Returned'
          /\ Writes(NewEntries) = << >>
          /\ Len(Reads(NewEntries)) <= 1
          /\ \A i \in 1..Len(calllog') : calllog'[i] # W("Q7X")
          /\ call' = call]_vars

\* C16 witness: read_multiple for 2 samples has accepted the first one and
\* then ended with the channel's error, the collected sample unreturned.
C16_Witness ==
    /\ pc = "done"
    /\ call.op = "read_multiple"
    /\ call.samples = 2
    /\ outcome = "ChannelError"
    /\ Len(Data) = 1
    /\ CurrentSample = 2


\* What read_multiple does from its entry to the gpib.readline() before its
\* loop, and in one pass of its loop body for the line it read while
\* expecting index cs, callback left out.
MultiPrologue(interval) == << W(RateCommand(interval)), S(interval) >>
MultiPassSteps(cs, interval, line) ==
    << R >> \o
    (IF HasTag(line, cs) \/ HasTag(line, cs - 1) THEN << S(interval) >> ELSE << >>) \o
    << W("B1X") >>

\* read_multiple itself takes these steps, and its callback right after the
\* read of an accepted line.
MultiStepsAgree ==
    [][/\ (pc = "idle" /\ pc' = "multi") => calllog' = MultiPrologue(call'.interval)
       /\ (pc = "multi" /\ pc' = "multi")
          => SelectSeq(NewEntries, LAMBDA e : e.op # "callback")
             = MultiPassSteps(CurrentSample, call.interval, Datum')]_vars

\* C17: read_one takes the steps of read_multiple run for 2 samples: the rate
\* command and the sleep of interval seconds before the first read, the same
\* branch, sleep, B1X and read for every line, Q7X at the end; it calls no
\* callback and returns the last value of Data.
C17_SameStepsAsMultiple ==
    [][/\ (pc = "idle" /\ pc' = "one")
          => /\ call'.samples = OneSampleTarget
             /\ calllog' = MultiPrologue(call'.interval)
       /\ (pc = "one" /\ pc' = "one")
          => /\ NewEntries = MultiPassSteps(CurrentSample, call.interval, Datum')
             /\ CurrentSample' = IF HasTag(Datum', CurrentSample)
                                 THEN CurrentSample + 1 ELSE CurrentSample
       /\ (pc = "one" /\ outcome' = "returned")
          => /\ NewEntries = << R, W("Q7X") >>
             /\ Callbacks(calllog') = << >>
             /\ ReturnedValue' = Data[Len(Data)]]_vars


\* C18: while read_multiple runs and once it has ended, Data and Time are
\* each CurrentSample - 1 long and CurrentSample lies in 1..samples + 1; a
\* step never lowers CurrentSample and raises it by exactly 1 exactly when it
\* appends to Data and Time, which it does only for a line tagged with the
\* CurrentSample it had: the k-th accepted line is one tagged k.
C18_LoopInvariant ==
    /\ []((call.op = "read_multiple" /\ outcome \in {"running", "returned", "ChannelError", "ValueError", "TypeError"})
          => /\ Len(Data) = CurrentSample - 1
             /\ Len(Time) = CurrentSample - 1
             /\ 1 <= CurrentSample
             /\ CurrentSample <= call.samples + 1)
    /\ [][pc = "multi"
          => /\ CurrentSample' \in {CurrentSample, CurrentSample + 1}
             /\ Len(Data') = Len(Data) + (CurrentSample' - CurrentSample)
             /\ Len(Time') = Len(Time) + (CurrentSample' - CurrentSample)
             /\ SubSeq(Data', 1, Len(Data)) = Data
             /\ SubSeq(Time', 1, Len(Time)) = Time
             /\ CurrentSample' = CurrentSample + 1
                => /\ Datum'.tag = Fmt3(CurrentSample)
                   /\ Data'[CurrentSample] = Datum'.val
                   /\ Len(Reads(NewEntries)) = 1]_vars

\* C18 witness: read_multiple for 2 samples has accepted both, the second
\* after a stale line, and waits with CurrentSample = samples + 1.
C18_Witness ==
    /\ pc = "multi"
    /\ call.samples = 2
    /\ CurrentSample = 3
    /\ Len(Data) = 2
    /\ Len(Time) = 2
    /\ Len(Reads(calllog)) = 3


\* the B1X commands in a log
Polls(log) == SelectSeq(log, LAMBDA e : e = W("B1X"))

\* C19: the step in which read_multiple accepts its last sample does not
\* return: it sleeps, sends B1X and waits for one more line.  Only a later
\* step that reads a line sends Q7X and returns, so a call that returned n
\* samples has sent at least n B1X and read at least n + 1 lines, the last
\* five entries of its log being the callback, the sleep, B1X, the read and
\* Q7X.
C19_OneMorePoll ==
    /\ []((Returned /\ call.op = "read_multiple")
          => /\ Len(Data) = call.samples
             /\ Len(Polls(calllog)) >= call.samples
             /\ Len(Reads(calllog)) >= call.samples + 1
             /\ Len(calllog) >= 5
             /\ SubSeq(calllog, Len(calllog) - 3, Len(calllog))
                = << S(call.interval), W("B1X"), R, W("Q7X") >>
             /\ calllog[Len(calllog) - 4].op = "callback")
    /\ [][/\ (pc = "multi" /\ CurrentSample <= call.samples
                           /\ CurrentSample' = call.samples + 1
                           /\ outcome' \notin {"ChannelError", "TypeError"})
             => /\ pc' = "multi"
                /\ outcome' = "running"
                /\ SubSeq(NewEntries, Len(NewEntries) - 1, Len(NewEntries))
                   = << S(call.interval), W("B1X") >>
          /\ (pc = "multi" /\ outcome' = "returned")
             => /\ CurrentSample = call.samples + 1
                /\ NewEntries = << R, W("Q7X") >>]_vars

\* C19 witness: read_multiple returned 2 samples after exactly 2 B1X and 3
\* lines read.
C19_Witness ==
    /\ Returned
    /\ call.op = "read_multiple"
    /\ call.samples = 2
    /\ Len(Data) = 2
    /\ Len(Polls(calllog)) = 2
    /\ Len(Reads(calllog)) = 3


\* the line carries an index beyond n
TagAhead(line, n) == line.tag # NoTag /\ \E m \in (n + 1)..MaxTag : line.tag = Fmt3(m)

\* C20: a line tagged beyond CurrentSample, read while the loop still
\* expects a sample, is not accepted and causes no sleep: the call sends B1X
\* at once and waits again, CurrentSample unchanged, so the next line of a
\* device that does not go back is beyond it again.  A call that still
\* expects a sample and whose last line was beyond CurrentSample has
\* therefore not sent Q7X and has not ended, unless the channel failed.
C20_DeviceAhead ==
    /\ []((/\ call.op \in {"read_multiple", "read_one"}
           /\ CurrentSample <= call.samples
           /\ TagAhead(Datum, CurrentSample))
          => /\ \A i \in 1..Len(calllog) : calllog[i] # W("Q7X")
             /\ outcome \in {"running", "ChannelError"}
             /\ outcome = "running"
                => /\ pc \in {"multi", "one"}
                   /\ SubSeq(calllog, Len(calllog) - 1, Len(calllog)) = << R, W("B1X") >>)
    /\ [][(/\ pc \in {"multi", "one"}
           /\ CurrentSample <= call.samples
           /\ Len(Reads(NewEntries)) = 1
           /\ TagAhead(Datum', CurrentSample)
           /\ outcome' # "ChannelError")
          => /\ CurrentSample' = CurrentSample
             /\ Data' = Data
             /\ Time' = Time
             /\ NewEntries = << R, W("B1X") >>
             /\ pc' = pc
             /\ outcome' = "running"]_vars

\* C20 witness: read_multiple for 2 samples accepted the first, then read
\* only lines tagged 003 while expecting 002, polling MaxPolls - 1 times with
\* no sleep after the one that followed the accepted line.
C20_Witness ==
    /\ pc = "multi"
    /\ outcome = "running"
    /\ call.samples = 2
    /\ CurrentSample = 2
    /\ Datum.tag = Fmt3(3)
    /\ iters = MaxPolls
    /\ Len(Polls(calllog)) = MaxPolls
    /\ Len(SelectSeq(calllog, LAMBDA e : e.op = "sleep")) = 2

====
